---- MODULE Spec2Model ----
(***************************************************************************)
(* Verification model of sql-query-chat-zing-play: the prompt builder of   *)
(* useAI, the reply handling of SimpleChat, the run lifecycle of a chat    *)
(* message, the schema refresh of useDuckDB, the editor/fix flow of the   *)
(* single-file DuckQuery component and the useTutorial hook.               *)
(*                                                                         *)
(* Text is modelled as a sequence of tokens.  A token is a run of          *)
(* characters that the string operations of the program never split: the   *)
(* code fence (three backticks), the tag "sql", a newline, a blank, a      *)
(* marker such as "CLARIFY:", or a run of other text.                      *)
(***************************************************************************)
EXTENDS Integers, Sequences, FiniteSets, TLC

VARIABLES
    \* ---- useAI.generateSql: the last completion request that was built
    promptSchema,      \* snapshot passed to generateSql
    promptQuestion,    \* question passed to generateSql
    promptTemplate,    \* system prompt template in force
    promptMessages,    \* messages array handed to callApi
    promptCalled,      \* TRUE once generateSql has been called
    \* ---- one model reply on its way through callApi, generateSql / fixSql
    \*      and the classification of SimpleChat.handleSubmit
    replyRaw,          \* choices[0].message.content as the API returned it
    replySql,          \* what generateSql resolves to
    replyFixed,        \* what fixSql resolves to for the same reply
    replyMsg,          \* the assistant message handleSubmit appends
    replyDone,         \* TRUE once the reply has been handled
    \* ---- SimpleChat (with the props it gets) and the convert / run actions
    \*      of SqlEditor
    messages,          \* useState<ChatMessage[]>
    isLoading,         \* useState(false): a generateSql call is outstanding
    chatSchemaLoading, \* the schemaLoading prop
    genPending,        \* the outstanding handleSubmit, awaiting generateSql
    runs,              \* the outstanding handleRunSql invocations
    execCalls,         \* every call of executeQuery so far: [id, sql]
    runClicks,         \* every user Run trigger so far: [id, sql]
    now,               \* Date.now()
    userActions,       \* number of user actions so far (submit, Run, convert)
    editorPending,     \* outstanding handleConvertToSql calls of the editor
    editorInserted,    \* generated SQL texts inserted into the editor
    \* ---- useDuckDB: the connection, the engine behind it, the published schema
    conn,              \* useState(null): TRUE once the connection is set
    engine,            \* the engine's tables: name -> version, 0 when absent
    schema,            \* useState<DatabaseSchema>({}): the published snapshot
    tables,            \* useState<string[]>([])
    schemaLoading,     \* useState(false)
    refreshes,         \* the outstanding refreshSchema invocations
    started,           \* number of refreshSchema invocations started so far
    builtBy,           \* the invocation whose setSchema published the snapshot
    builtFrom,         \* the table names that invocation had discovered
    resolved,          \* the operation that returned to its caller last, and its refresh
    \* ---- the single-page DuckQuery component of App.tsx
    nlQuery,           \* useState(''): the question input
    sqlQuery,          \* useState(''): the SQL textarea
    error,             \* useState(null): the error banner, NoText when null
    queryLoading,      \* useState(false)
    results,           \* useState(null): the rows shown, NoRows when null
    appPending,        \* the outstanding generateSQL / fixSQL / executeSQL calls
    appActions,        \* number of such calls started so far
    fixRequests,       \* the SQL and error text of every fix request sent
    lastFailure,       \* the SQL and engine error of the last failed execution
    \* ---- buildSchemaDescription applied to a snapshot
    serSchema,         \* the snapshot, its tables in the order they were inserted
    serDetailed,       \* buildSchemaDescription(schema, true)
    serCompact,        \* buildSchemaDescription(schema, false)
    serDone,           \* TRUE once both texts are built
    \* ---- convertBigIntToNumber applied to what the engine returns
    cvCell,            \* a cell of a row the engine returns
    cvMin,             \* the min / max of a SUMMARIZE row
    cvCount,           \* the count / approx_unique of a SUMMARIZE row
    cvSample,          \* the cell as published in the samples of the snapshot
    cvStat,            \* the statistics entry as published in the snapshot
    cvRow,             \* the cell as published in a QueryResult row
    cvDone,            \* the conversions made so far
    \* ---- callApi answered with a non-success HTTP status
    apiStatus,         \* response.status
    apiOp,             \* the operation of useAI that called callApi
    apiParsed,         \* parseApiError(response.status)
    apiThrown,         \* what the operation rejects with towards its caller
    apiDone,           \* TRUE once the call has failed
    \* ---- useTutorial, with the localStorage entry it reads and writes
    tutStored,         \* localStorage[TUTORIAL_COMPLETED], "absent" when not set
    tutMounted,        \* TRUE once the auto-start effect has run
    isActive,          \* useState(false)
    currentStepIndex,  \* useState(0)
    renderedIndex,     \* currentStepIndex as the last render captured it
    renderedActive,    \* isActive as the last render captured it
    tutCalls,          \* calls of the hook's functions handled since that render
    tutLastOp          \* the function of the hook that was called last

promptVars == <<promptSchema, promptQuestion, promptTemplate, promptMessages, promptCalled>>
replyVars == <<replyRaw, replySql, replyFixed, replyMsg, replyDone>>

chatVars == <<messages, isLoading, chatSchemaLoading, genPending, runs, execCalls,
              runClicks, now, userActions, editorPending, editorInserted>>

schemaVars == <<conn, engine, schema, tables, schemaLoading, refreshes, started,
                builtBy, builtFrom, resolved>>

appVars == <<nlQuery, sqlQuery, error, queryLoading, results, appPending, appActions,
             fixRequests, lastFailure>>

serVars == <<serSchema, serDetailed, serCompact, serDone>>

cvVars == <<cvCell, cvMin, cvCount, cvSample, cvStat, cvRow, cvDone>>

apiVars == <<apiStatus, apiOp, apiParsed, apiThrown, apiDone>>

tutVars == <<tutStored, tutMounted, isActive, currentStepIndex, renderedIndex,
             renderedActive, tutCalls, tutLastOp>>

vars == <<promptVars, replyVars, chatVars, schemaVars, appVars, serVars, cvVars,
          apiVars, tutVars>>

\* what the actions of each specification leave alone
promptOthers == <<tutVars, replyVars, chatVars, schemaVars, appVars, serVars, cvVars, apiVars>>
replyOthers == <<tutVars, promptVars, chatVars, schemaVars, appVars, serVars, cvVars, apiVars>>
chatOthers == <<tutVars, promptVars, replyVars, schemaVars, appVars, serVars, cvVars, apiVars>>
schemaOthers == <<tutVars, promptVars, replyVars, chatVars, appVars, serVars, cvVars, apiVars>>
appOthers == <<tutVars, promptVars, replyVars, chatVars, schemaVars, serVars, cvVars, apiVars>>
serOthers == <<tutVars, promptVars, replyVars, chatVars, schemaVars, appVars, cvVars, apiVars>>
cvOthers == <<tutVars, promptVars, replyVars, chatVars, schemaVars, appVars, serVars, apiVars>>
apiOthers == <<tutVars, promptVars, replyVars, chatVars, schemaVars, appVars, serVars,
               cvVars>>
tutOthers == <<promptVars, replyVars, chatVars, schemaVars, appVars, serVars, cvVars,
               apiVars>>

----------------------------------------------------------------------------
(* Bounds *)

MaxTables == 2
MaxCols == 2
MaxReplyLen == 4
MaxUserActions == 3
MaxClock == 1
MaxRefreshes == 3
MaxInFlight == 2
MaxCallsPerRender == 2
MaxAppActions == 3

----------------------------------------------------------------------------
(* Text helpers *)

NL == "\n"
SP == " "
\* the code fence, three backticks
FENCE == "<fence>"
SQLTAG == "sql"

IsWs(t) == t = NL \/ t = SP

Contains(text, pat) ==
    \E i \in 1..(Len(text) + 1) :
        /\ i + Len(pat) - 1 <= Len(text)
        /\ SubSeq(text, i, i + Len(pat) - 1) = pat

EndsWith(text, pat) ==
    /\ Len(pat) <= Len(text)
    /\ SubSeq(text, Len(text) - Len(pat) + 1, Len(text)) = pat

StartsWith(text, tok) == Len(text) > 0 /\ Head(text) = tok

RECURSIVE JoinSeq(_, _)
JoinSeq(parts, sep) ==
    IF Len(parts) = 0 THEN <<>>
    ELSE IF Len(parts) = 1 THEN Head(parts)
    ELSE Head(parts) \o sep \o JoinSeq(Tail(parts), sep)

MapSeq(s, Op(_)) == [i \in 1..Len(s) |-> Op(s[i])]

\* String.prototype.trim
RECURSIVE TrimLeft(_)
TrimLeft(s) == IF Len(s) > 0 /\ IsWs(Head(s)) THEN TrimLeft(Tail(s)) ELSE s

RECURSIVE TrimRight(_)
TrimRight(s) ==
    IF Len(s) > 0 /\ IsWs(s[Len(s)]) THEN TrimRight(SubSeq(s, 1, Len(s) - 1)) ELSE s

Trim(s) == TrimRight(TrimLeft(s))

\* String.prototype.replace(string, string): the first occurrence only
RECURSIVE ReplaceFirst(_, _, _)
ReplaceFirst(text, tok, repl) ==
    IF Len(text) = 0 THEN <<>>
    ELSE IF Head(text) = tok THEN repl \o Tail(text)
    ELSE <<Head(text)>> \o ReplaceFirst(Tail(text), tok, repl)

----------------------------------------------------------------------------
(* Schema snapshots (DatabaseSchema): tables in key insertion order *)

\* "2024" is the table importCsv makes of 2024.csv
TableNames == {"users", "orders", "2024"}
ColumnPool == {[name |-> "id", type |-> "INTEGER"], [name |-> "user_id", type |-> "VARCHAR"]}
SamplePool == {<<>>, <<1>>}

ColumnLists ==
    {cs \in UNION {[1..n -> ColumnPool] : n \in 1..MaxCols} :
        \A i, j \in 1..Len(cs) : i # j => cs[i].name # cs[j].name}

TableSchemas ==
    [name : TableNames, columns : ColumnLists, samples : SamplePool, stats : {<<>>}]

Snapshots ==
    {S \in UNION {[1..n -> TableSchemas] : n \in 0..MaxTables} :
        \A i, j \in 1..Len(S) : i # j => S[i].name # S[j].name}

Questions == {"count rows", "show users"}

----------------------------------------------------------------------------
(* useAI: prompt construction *)

SCHEMA_PLACEHOLDER == "{schema}"
DEFAULT_GENERATE_SQL == <<"You are a DuckDB SQL expert assistant.">>
CUSTOM_GENERATE_SQL == <<"Answer with SQL. Schema: ", SCHEMA_PLACEHOLDER, " End.">>
PromptTemplates == {DEFAULT_GENERATE_SQL, CUSTOM_GENERATE_SQL}

ColumnText(c) == <<c.name, " (", c.type, ")">>

\* JSON.stringify of the sample rows / statistics of a table
JsonItem(x) == <<"{\"v\":", ToString(x), "}">>
JsonArray(xs) == <<"[">> \o JoinSeq(MapSeq(xs, JsonItem), <<",">>) \o <<"]">>

\* the variant that renders the details whatever includeDetails says
TableTextAlwaysDetailed(t, includeDetails) ==
    LET cols == JoinSeq(MapSeq(t.columns, ColumnText), <<", ">>)
    IN  <<"Table \"", t.name, "\": ">> \o cols
        \o <<"\nSamples: ">> \o JsonArray(t.samples)
        \o <<"\nStats: ">> \o JsonArray(t.stats)

TableText(t, includeDetails) ==
    LET cols == JoinSeq(MapSeq(t.columns, ColumnText), <<", ">>)
    IN  IF ~includeDetails
        THEN <<t.name, ": ">> \o cols
        ELSE <<"Table \"", t.name, "\": ">> \o cols
             \o <<"\nSamples: ">> \o JsonArray(t.samples)
             \o <<"\nStats: ">> \o JsonArray(t.stats)

\* the table names that are array-index keys of a JavaScript object, with
\* their numeric value (-1 for the other names)
IndexKeyOf(name) == IF name = "2024" THEN 2024 ELSE -1
IsIndexKey(name) == IndexKeyOf(name) >= 0

\* insertion of t into a sequence of tables kept in ascending index-key order
RECURSIVE InsertByIndexKey(_, _)
InsertByIndexKey(t, sorted) ==
    IF sorted = <<>> THEN <<t>>
    ELSE IF IndexKeyOf(t.name) < IndexKeyOf(Head(sorted).name) THEN <<t>> \o sorted
    ELSE <<Head(sorted)>> \o InsertByIndexKey(t, Tail(sorted))

RECURSIVE IndexKeyEntries(_)
IndexKeyEntries(dbSchema) ==
    IF dbSchema = <<>> THEN <<>>
    ELSE IF IsIndexKey(Head(dbSchema).name)
         THEN InsertByIndexKey(Head(dbSchema), IndexKeyEntries(Tail(dbSchema)))
         ELSE IndexKeyEntries(Tail(dbSchema))

RECURSIVE StringKeyEntries(_)
StringKeyEntries(dbSchema) ==
    IF dbSchema = <<>> THEN <<>>
    ELSE IF IsIndexKey(Head(dbSchema).name)
         THEN StringKeyEntries(Tail(dbSchema))
         ELSE <<Head(dbSchema)>> \o StringKeyEntries(Tail(dbSchema))

\* an enumeration of the entries in insertion order, whatever the keys
EntriesInInsertionOrder(dbSchema) == dbSchema

\* Object.entries(schema): the array-index keys in ascending numeric order,
\* then the other keys in insertion order
ObjectEntries(dbSchema) == IndexKeyEntries(dbSchema) \o StringKeyEntries(dbSchema)

\* the same text with a heading line before the tables
buildSchemaDescriptionHeaded(dbSchema, includeDetails) ==
    LET one(t) == TableText(t, includeDetails)
    IN  <<"Tables:", NL>> \o JoinSeq(MapSeq(ObjectEntries(dbSchema), one), <<"\n\n">>)

buildSchemaDescription(dbSchema, includeDetails) ==
    LET one(t) == TableText(t, includeDetails)
    IN  JoinSeq(MapSeq(ObjectEntries(dbSchema), one), <<"\n\n">>)

\* a user-role content that always carries the schema block, whatever the
\* snapshot (the variant that forgets the empty-snapshot case)
UserMessageWithHeader(question, dbSchema) ==
    <<"DATABASE SCHEMA:", NL>> \o buildSchemaDescription(dbSchema, TRUE)
        \o <<NL, NL, "QUESTION: ">> \o <<question>>

\* generateSql: { role: 'user', content: question }
generateSqlUserContent(question, dbSchema) == <<question>>

generateSqlMessages(question, dbSchema, template) ==
    LET schemaDesc == buildSchemaDescription(dbSchema, TRUE)
        systemPrompt == ReplaceFirst(template, SCHEMA_PLACEHOLDER, schemaDesc)
    IN  << [role |-> "system", content |-> systemPrompt],
           [role |-> "user", content |-> generateSqlUserContent(question, dbSchema)] >>

----------------------------------------------------------------------------
(* useAI: reply post-processing *)

\* result.replace(/<fence>sql\n?|\n?<fence>/g, ''): scanning left to right, the
\* first alternative that matches at a position is removed
RECURSIVE StripFences(_)
StripFences(s) ==
    IF Len(s) = 0 THEN <<>>
    ELSE IF Len(s) >= 3 /\ s[1] = FENCE /\ s[2] = SQLTAG /\ s[3] = NL
        THEN StripFences(SubSeq(s, 4, Len(s)))
    ELSE IF Len(s) >= 2 /\ s[1] = FENCE /\ s[2] = SQLTAG
        THEN StripFences(SubSeq(s, 3, Len(s)))
    ELSE IF Len(s) >= 2 /\ s[1] = NL /\ s[2] = FENCE
        THEN StripFences(SubSeq(s, 3, Len(s)))
    ELSE IF s[1] = FENCE
        THEN StripFences(Tail(s))
    ELSE <<Head(s)>> \o StripFences(Tail(s))

\* callApi: data.choices[0].message.content.trim()
callApiContent(raw) == Trim(raw)

\* generateSql / fixSql: the trimmed content with the fence markers removed
generateSqlResult(raw) == StripFences(callApiContent(raw))
fixSqlResult(raw) == StripFences(callApiContent(raw))

----------------------------------------------------------------------------
(* ChatMessage and the classification of SimpleChat.handleSubmit *)

CLARIFY_PREFIX == "CLARIFY:"
CHAT_PREFIX == "CHAT:"
FALLBACK_TEXT == <<"I understand. How can I help you with your data?">>
GENERATED_TEXT == <<"Generated SQL query. Click \"Run\" to execute it.">>
EXECUTING_TEXT == <<"Executing query...">>
FAILED_TEXT == <<"Query failed">>

\* an absent optional text field and the empty string are both falsy and are
\* both written <<>>
NoText == <<>>
NoResult == [columns |-> <<>>, rows |-> <<>>, rowCount |-> -1]

NoMessage ==
    [id |-> -1, role |-> "none", content |-> NoText, sql |-> NoText,
     sqlExecuted |-> FALSE, results |-> NoResult, insight |-> NoText,
     error |-> NoText, isGenerating |-> FALSE]

TextMessage(id, role, content) ==
    [id |-> id, role |-> role, content |-> content, sql |-> NoText,
     sqlExecuted |-> FALSE, results |-> NoResult, insight |-> NoText,
     error |-> NoText, isGenerating |-> FALSE]

\* the same handling with the CHAT: marker forgotten
assistantMessageNoChat(generated, id) ==
    IF generated = NoText \/ StartsWith(generated, CLARIFY_PREFIX)
    THEN LET content0 == IF generated = NoText THEN FALLBACK_TEXT ELSE generated
             content == IF StartsWith(content0, CLARIFY_PREFIX)
                        THEN Trim(Tail(content0)) ELSE content0
         IN  TextMessage(id, "assistant", content)
    ELSE [TextMessage(id, "assistant", GENERATED_TEXT) EXCEPT !.sql = generated]

\* handleSubmit, from the value generateSql resolved to, to the appended message
assistantMessageFor(generated, id) ==
    IF generated = NoText \/ StartsWith(generated, CLARIFY_PREFIX)
                         \/ StartsWith(generated, CHAT_PREFIX)
    THEN LET content0 == IF generated = NoText THEN FALLBACK_TEXT ELSE generated
             content == IF StartsWith(content0, CLARIFY_PREFIX)
                            THEN Trim(Tail(content0))
                        ELSE IF StartsWith(content0, CHAT_PREFIX)
                            THEN Trim(Tail(content0))
                        ELSE content0
         IN  TextMessage(id, "assistant", content)
    ELSE [TextMessage(id, "assistant", GENERATED_TEXT) EXCEPT !.sql = generated]

\* ---- what the chat needs beyond the classification

NoGen == [active |-> FALSE, question |-> "", history |-> <<>>, request |-> <<>>]

\* messages.slice(-10)
HISTORY_LIMIT == 10
lastMessages(msgs) ==
    IF Len(msgs) <= HISTORY_LIMIT THEN msgs
    ELSE SubSeq(msgs, Len(msgs) - HISTORY_LIMIT + 1, Len(msgs))

\* handleSubmit: the history entry made of one message
historyEntry(m) ==
    IF m.role = "assistant" /\ m.sql # NoText
    THEN [role |-> m.role,
          content |-> <<"Generated SQL: ">> \o m.sql \o <<"\nResult: ">> \o m.content
                      \o (IF m.error # NoText THEN <<"\nError: ">> \o m.error
                          ELSE <<>>)]
    ELSE [role |-> m.role, content |-> m.content]

historyOf(msgs) ==
    [i \in 1..Len(lastMessages(msgs)) |-> historyEntry(lastMessages(msgs)[i])]

\* the schema prop of the chat and the configured prompt
ChatSchema ==
    << [name |-> "users", columns |-> <<[name |-> "id", type |-> "INTEGER"]>>,
        samples |-> <<>>, stats |-> <<>>] >>

\* generateSql(input, currentSchema, history): the function takes question and
\* schema; a third argument is not read
generateSqlRequest(question, dbSchema, history) ==
    generateSqlMessages(question, dbSchema, DEFAULT_GENERATE_SQL)

\* the text the user may have typed into the SqlBlock of a message
EDITED_SQL == <<"SELECT 2">>
\* the id under which calls made from the SQL editor are logged
EDITOR_ID == -2

\* the question typed into the chat
ChatQuestions == {"count rows"}
\* the reply the editor's convert action is run with
EditorReplies == {<<"SELECT 1">>}
\* the values Date.now() can return after it has returned t
ClockAfter(t) == {u \in t..(t + 1) : u <= MaxClock}
\* replies of the completion API the chat is run with
ChatReplies == {<<"SELECT 1">>, <<CLARIFY_PREFIX, SP, "which table?">>}
\* Error.message of a failed completion call (callApi)
ApiErrors == {<<"Too many requests. Please wait and try again.">>}
\* raw error texts of the engine
EngineErrors == {<<"Catalog Error: Table with name orders does not exist!">>}
\* results of the engine
ResultPool == {[columns |-> <<"n">>, rows |-> <<7>>, rowCount |-> 1]}
\* replies of interpretResults
Insights == {<<"One row came back.">>}

\* executeQuery: throw new Error(appError.technical || appError.message), the
\* technical text being the engine's message
SQL_FRIENDLY_DEFAULT == <<"Query execution failed. Try modifying your query.">>
executeQueryError(raw) == IF raw # NoText THEN raw ELSE SQL_FRIENDLY_DEFAULT

FoundText(n) == <<"Found ", ToString(n), IF n # 1 THEN " results" ELSE " result">>

\* messages.findIndex(m => m.id === id), 0 when there is none
FirstIndexOf(msgs, id) ==
    IF \E i \in 1..Len(msgs) : msgs[i].id = id
    THEN CHOOSE i \in 1..Len(msgs) :
            /\ msgs[i].id = id
            /\ \A j \in 1..(i - 1) : msgs[j].id # id
    ELSE 0

\* handleRunSql: the question is the content of the message before the target
questionOf(msgs, id) ==
    LET k == FirstIndexOf(msgs, id)
    IN  IF k > 1 THEN msgs[k - 1].content ELSE <<"query">>

markExecuting(m) == [m EXCEPT !.content = EXECUTING_TEXT, !.isGenerating = TRUE]

markSucceeded(m, sql, res, insight) ==
    [m EXCEPT !.content = FoundText(res.rowCount), !.sql = sql,
              !.sqlExecuted = TRUE, !.results = res, !.insight = insight,
              !.isGenerating = FALSE]

markFailed(m, err) ==
    [m EXCEPT !.content = FAILED_TEXT, !.error = err, !.isGenerating = FALSE]

\* tutorialSteps.ts: the ids demo-user-<now> and demo-assistant-<now + 1> are
\* strings no submission produces; they are numbered apart from the times
DEMO_USER_BASE == 100
DEMO_ASSISTANT_BASE == 200
DEMO_QUESTION == <<"What are the top categories by total revenue?">>
DEMO_SQL == <<"SELECT category, SUM(revenue) AS total_revenue FROM sales_data">>
DEMO_INSIGHT == <<"Electronics leads with the highest revenue.">>

\* buildDemoMessages(results) at time t
buildDemoMessages(res, t) ==
    << TextMessage(DEMO_USER_BASE + t, "user", DEMO_QUESTION),
       [TextMessage(DEMO_ASSISTANT_BASE + t + 1, "assistant", FoundText(res.rowCount))
            EXCEPT !.sql = DEMO_SQL, !.sqlExecuted = TRUE, !.results = res,
                   !.insight = DEMO_INSIGHT] >>

\* the demoMessages effect: setMessages(demoMessages)
demoInjected(msgs, demo) == demo

\* the variant of handleSubmit that runs the SQL it has just generated
execAfterGenerateAuto(calls, msg) ==
    IF msg.sql # NoText THEN Append(calls, [id |-> msg.id, sql |-> msg.sql]) ELSE calls

\* handleSubmit: "Show SQL but DON'T execute it yet - user will click Run button"
execAfterGenerate(calls, msg) == calls

\* the Run button of SqlBlock is rendered: msg.sql && onRun && !executed
runButtonShown(m) == m.role = "assistant" /\ m.sql # NoText /\ ~m.sqlExecuted

ReplyTokens == {SP, NL, FENCE, SQLTAG, CLARIFY_PREFIX, CHAT_PREFIX, "SELECT 1"}
RawReplies == UNION {[1..n -> ReplyTokens] : n \in 0..MaxReplyLen}

----------------------------------------------------------------------------
(* Specification SpecPrompt: generateSql applied to every snapshot, question *)
(* and prompt template of the bounded input sets                             *)

\* ---- errorHandler.ts and the failure path of callApi

AppError(code, message, recoverable) ==
    [code |-> code, message |-> message, recoverable |-> recoverable]
\* "none" stands for a property the object does not have
NoAppError == AppError("none", "", "none")

\* the statuses written out in HTTP_ERROR_MAP
MappedStatuses == {400, 401, 403, 429, 500, 502, 503}

HTTP_ERROR_MAP(status) ==
    CASE status = 400 ->
           AppError("BAD_REQUEST", "Request format error. Check your input.", FALSE)
      [] status = 401 ->
           AppError("AUTH", "Invalid API key. Please check your settings.", TRUE)
      [] status = 403 ->
           AppError("AUTH", "Access denied. Check your API key permissions.", TRUE)
      [] status = 429 ->
           AppError("RATE_LIMIT", "Too many requests. Please wait and try again.", TRUE)
      [] status = 500 ->
           AppError("API_ERROR",
                    "Server error. The service may be temporarily unavailable.", TRUE)
      [] status = 502 ->
           AppError("API_ERROR", "Service temporarily unavailable. Please try again.",
                    TRUE)
      [] status = 503 ->
           AppError("API_ERROR", "Service unavailable. Please try again later.", TRUE)

API_ERROR_DEFAULT ==
    AppError("API_ERROR", "An unexpected error occurred. Please try again.", TRUE)

\* the variant whose fallback cannot be retried
parseApiErrorStrict(status) ==
    IF status \in MappedStatuses THEN HTTP_ERROR_MAP(status)
    ELSE AppError("API_ERROR", "An unexpected error occurred. Please try again.", FALSE)

parseApiError(status) ==
    IF status \in MappedStatuses THEN HTTP_ERROR_MAP(status) ELSE API_ERROR_DEFAULT

\* the statuses for which response.ok is false
FailureStatuses == {301, 400, 401, 403, 404, 418, 429, 500, 502, 503, 504, 599}

\* the operations of useAI, all of which go through callApi
ApiOperations ==
    {"generateSql", "interpretResults", "generateSuggestions", "discoverData",
     "explorePreliminary", "fixSql"}

\* throw new Error(error.message): an Error has the message and nothing else;
\* none of the operations catches or wraps it
thrownByCallApi(appError) == AppError("none", appError.message, "none")

\* ---- serialization.ts: values of the engine and their published form

\* An integer is written sign, hi, lo with magnitude hi * LoBase + lo, so that
\* the values around 2^53 can be told apart: LoBase is 2^27, and SafeHi is
\* 2^26 - 1, the hi part of Number.MAX_SAFE_INTEGER = 2^53 - 1.
LoBase == 134217728
SafeHi == 67108863

BigInt(neg, hi, lo) == [kind |-> "bigint", neg |-> neg, hi |-> hi, lo |-> lo]
NumberValue(neg, hi, lo) == [kind |-> "number", neg |-> neg, hi |-> hi, lo |-> lo]
\* value.toString(): the decimal digits of exactly this integer
DecimalString(v) == [kind |-> "string", neg |-> v.neg, hi |-> v.hi, lo |-> v.lo]
TextValue == [kind |-> "text", neg |-> FALSE, hi |-> 0, lo |-> 0]
NullValue == [kind |-> "null", neg |-> FALSE, hi |-> 0, lo |-> 0]
NoStat == [min |-> NullValue, max |-> NullValue, approx_unique |-> NullValue,
           count |-> NullValue]

\* Number(value) of a bigint: exact below 2^53; from 2^53 to 2^54 the doubles
\* are the even integers and the value is rounded to the nearest, ties to the
\* one whose half is even
NumberOf(v) ==
    IF v.hi <= SafeHi THEN NumberValue(v.neg, v.hi, v.lo)
    ELSE IF v.lo % 2 = 0 THEN NumberValue(v.neg, v.hi, v.lo)
    ELSE IF (v.lo + 1) % 4 = 0
         THEN IF v.lo + 1 = LoBase THEN NumberValue(v.neg, v.hi + 1, 0)
              ELSE NumberValue(v.neg, v.hi, v.lo + 1)
         ELSE NumberValue(v.neg, v.hi, v.lo - 1)

\* Number.isSafeInteger(num): the magnitude is at most 2^53 - 1
IsSafeInteger(num) == num.hi <= SafeHi

\* the variant that tests Number.isInteger instead of Number.isSafeInteger
convertBigIntAlwaysNumber(value) ==
    IF value.kind = "bigint" THEN NumberOf(value) ELSE value

\* convertBigIntToNumber on a scalar
convertBigIntToNumber(value) ==
    IF value.kind = "bigint"
    THEN IF IsSafeInteger(NumberOf(value)) THEN NumberOf(value)
         ELSE DecimalString(value)
    ELSE value

\* refreshSchema: one entry of stats
statsEntry(min, count) ==
    [min |-> convertBigIntToNumber(min), max |-> convertBigIntToNumber(min),
     approx_unique |-> NumberOf(count), count |-> NumberOf(count)]

\* the rows a table of this program can hold are far fewer than 2^53: the
\* counts SUMMARIZE returns
EngineCounts == {BigInt(FALSE, 0, 0), BigInt(FALSE, 0, 7)}

\* integers the engine returns for BIGINT and UBIGINT cells, around the ends of
\* the safe range
EngineIntegers ==
    {BigInt(n, h, l) : n \in BOOLEAN,
                       h \in {0, SafeHi, SafeHi + 1},
                       l \in {0, 1, 2, 3, LoBase - 2, LoBase - 1}}

EngineValues == EngineIntegers \cup {TextValue, NullValue}

\* the integer lies beyond the safe-integer range
Oversized(v) == v.kind = "bigint" /\ v.hi > SafeHi

\* the published value is this integer written as its decimal string
IsDecimalStringOf(p, v) == p = DecimalString(v)

\* ---- the DuckQuery component of App.tsx

\* what the user types into the SQL textarea
AppSqlPool == {<<"SELECT 1">>, <<"SELEC 1">>}
\* replies of the completion API to generateSQL and fixSQL
AppReplies == {<<"SELECT 2">>}
\* err.message of a failed completion call: 'API error: ' + res.status
AppApiErrors == {<<"API error: 500">>}
\* result.toArray() of an execution, and the null of useState(null)
AppRows == <<7>>
NoRows == <<"null">>
NoFailure == [sql |-> NoText, error |-> NoText]

\* data.choices[0].message.content.trim().replace(fence pattern, '')
legacyCleanSql(raw) == StripFences(Trim(raw))

GENERATE_FAILED_PREFIX == "Failed to generate SQL: "
FIX_FAILED_PREFIX == "Failed to fix SQL: "

\* fixSQL: the failing query and the error message put into the request
fixRequestOf(sql, err, failure) ==
    [sql |-> sql, error |-> err, failedSql |-> failure.sql,
     failedError |-> failure.error]

\* ---- useDuckDB: the engine and refreshSchema

\* the tables the program can create: loadSampleData creates sales_data,
\* importCsv the table named after the file; the list query returns them in
\* this order
SAMPLE_TABLE == "sales_data"
CSV_TABLE == "data"
EngineTableOrder == <<SAMPLE_TABLE, CSV_TABLE>>
EngineTables == {SAMPLE_TABLE, CSV_TABLE}
EmptyEngine == [t \in EngineTables |-> 0]

\* CREATE OR REPLACE TABLE t: the table gets new contents
createOrReplace(e, t) == [e EXCEPT ![t] = e[t] + 1]

\* SELECT table_name FROM information_schema.tables
RECURSIVE listTablesFrom(_, _)
listTablesFrom(e, order) ==
    IF order = <<>> THEN <<>>
    ELSE IF e[Head(order)] > 0
         THEN <<Head(order)>> \o listTablesFrom(e, Tail(order))
         ELSE listTablesFrom(e, Tail(order))

listTables(e) == listTablesFrom(e, EngineTableOrder)

\* a refreshSchema invocation at its first await
NewRefresh(n, caller) ==
    [n |-> n, pc |-> "list", tableNames |-> <<>>, idx |-> 0, schemaObj |-> {},
     cols |-> 0, samples |-> 0, caller |-> caller]

\* no operation has returned yet
NoOperation == [op |-> "none", n |-> 0, outcome |-> "none"]

\* the variant in which no caller waits for its refresh
awaitsRefreshNever(caller) == FALSE

\* importCsv and loadSampleData await refreshSchema(); the effect on conn calls
\* it and returns
awaitsRefresh(caller) == caller \in {"importCsv", "loadSampleData"}

\* the operation returns to its caller with refresh n behind it
resolvedWith(caller, n) == [op |-> caller, n |-> n, outcome |-> "fulfilled"]

\* the variant in which the catch block throws the error on
refreshOutcomeRethrows(failed) == IF failed THEN "rejected" ELSE "fulfilled"

\* how the promise of refreshSchema settles: the catch block logs the error and
\* the function returns
refreshOutcome(failed) == "fulfilled"

\* the variant that leaves the statistics out of the entry
schemaEntryNoStats(table, cols, samples, stats) ==
    [name |-> table, columns |-> cols, samples |-> samples, stats |-> 0]

\* schemaObj[table] = { columns: cols, samples, stats }, each named by the
\* version of the table that the query read
schemaEntry(table, cols, samples, stats) ==
    [name |-> table, columns |-> cols, samples |-> samples, stats |-> stats]

\* the table names of a snapshot
snapshotTables(snap) == {e.name : e \in snap}

\* what the engine answers for a table whose contents have version v: the
\* columns of DESCRIBE, the rows of SELECT * LIMIT 5, the rows of SUMMARIZE
DescribeAnswer(v) == <<[name |-> "id", type |-> ToString(v)]>>
SampleAnswer(v) == IF v = 0 THEN <<>> ELSE <<v>>
SummarizeAnswer(v) == IF v = 0 THEN <<>> ELSE <<v>>

\* the snapshot object: its keys inserted in the order of the table list, each
\* with the answers its entry was made of
snapshotObject(order, snap) ==
    [i \in 1..Len(order) |->
        LET e == CHOOSE x \in snap : x.name = order[i]
        IN  [name |-> e.name, columns |-> DescribeAnswer(e.columns),
             samples |-> SampleAnswer(e.samples), stats |-> SummarizeAnswer(e.stats)]]

\* buildSchemaDescription of a published snapshot
serializeSnapshot(order, snap) ==
    buildSchemaDescription(snapshotObject(order, snap), TRUE)

\* the snapshot that describes the engine as it is
engineSnapshot(e) ==
    {[name |-> t, columns |-> e[t], samples |-> e[t], stats |-> e[t]] :
        t \in {n \in EngineTables : e[n] > 0}}

\* the variant of the catch block that publishes what the loop has built so far
schemaAfterFailurePartial(cur, schemaObj) == schemaObj

\* catch (err) { console.error(...) }: the published snapshot stays
schemaAfterFailure(cur, schemaObj) == cur

PromptIdle ==
    /\ promptSchema = <<>>
    /\ promptQuestion = "count rows"
    /\ promptTemplate = DEFAULT_GENERATE_SQL
    /\ promptMessages = <<>>
    /\ promptCalled = FALSE

ReplyIdle ==
    /\ replyRaw = <<>>
    /\ replySql = <<>>
    /\ replyFixed = <<>>
    /\ replyMsg = NoMessage
    /\ replyDone = FALSE

ChatIdle ==
    /\ messages = <<>>
    /\ isLoading = FALSE
    /\ chatSchemaLoading = FALSE
    /\ genPending = NoGen
    /\ runs = {}
    /\ execCalls = <<>>
    /\ runClicks = <<>>
    /\ now = 0
    /\ userActions = 0
    /\ editorPending = 0
    /\ editorInserted = {}

TutIdle ==
    /\ tutStored = "absent"
    /\ tutMounted = FALSE
    /\ isActive = FALSE
    /\ currentStepIndex = 0
    /\ renderedIndex = 0
    /\ renderedActive = FALSE
    /\ tutCalls = 0
    /\ tutLastOp = "none"

ApiIdle ==
    /\ apiStatus = 200
    /\ apiOp = "none"
    /\ apiParsed = NoAppError
    /\ apiThrown = NoAppError
    /\ apiDone = FALSE

CvIdle ==
    /\ cvCell = NullValue
    /\ cvMin = NullValue
    /\ cvCount = BigInt(FALSE, 0, 0)
    /\ cvSample = NullValue
    /\ cvStat = NoStat
    /\ cvRow = NullValue
    /\ cvDone = {}

SerIdle ==
    /\ serSchema = <<>>
    /\ serDetailed = <<>>
    /\ serCompact = <<>>
    /\ serDone = FALSE

AppIdle ==
    /\ nlQuery = NoText
    /\ sqlQuery = NoText
    /\ error = NoText
    /\ queryLoading = FALSE
    /\ results = NoRows
    /\ appPending = {}
    /\ appActions = 0
    /\ fixRequests = <<>>
    /\ lastFailure = NoFailure

SchemaIdle ==
    /\ conn = FALSE
    /\ engine = EmptyEngine
    /\ schema = {}
    /\ tables = <<>>
    /\ schemaLoading = FALSE
    /\ refreshes = {}
    /\ started = 0
    /\ builtBy = 0
    /\ builtFrom = <<>>
    /\ resolved = NoOperation

InitPrompt ==
    /\ TutIdle
    /\ ReplyIdle
    /\ ChatIdle
    /\ SchemaIdle
    /\ AppIdle
    /\ ApiIdle
    /\ CvIdle
    /\ SerIdle
    /\ promptSchema \in Snapshots
    /\ promptQuestion \in Questions
    /\ promptTemplate \in PromptTemplates
    /\ promptMessages = <<>>
    /\ promptCalled = FALSE

GenerateSqlCall ==
    /\ ~promptCalled
    /\ promptMessages' = generateSqlMessages(promptQuestion, promptSchema, promptTemplate)
    /\ promptCalled' = TRUE
    /\ UNCHANGED <<promptSchema, promptQuestion, promptTemplate>>
    /\ UNCHANGED promptOthers

NextPrompt == GenerateSqlCall

SpecPrompt == InitPrompt /\ [][NextPrompt]_vars

UserContent == promptMessages[2].content

\* C1 (as claimed): for a non-empty snapshot the user-role message of the
\* generateSql request contains "DATABASE SCHEMA:", every table name and every
\* "name (TYPE)" column pair, and ends with "QUESTION: " followed by the question.
C1_UserMessageCarriesSchema ==
    (promptCalled /\ Len(promptSchema) > 0) =>
        /\ Contains(UserContent, <<"DATABASE SCHEMA:">>)
        /\ \A i \in 1..Len(promptSchema) :
            /\ Contains(UserContent, <<promptSchema[i].name>>)
            /\ \A j \in 1..Len(promptSchema[i].columns) :
                Contains(UserContent, ColumnText(promptSchema[i].columns[j]))
        /\ EndsWith(UserContent, <<"QUESTION: ", promptQuestion>>)

\* C2: for the empty snapshot the user-role message of the generateSql request
\* is the question itself and carries no "DATABASE SCHEMA:" header.
C2_EmptySnapshotUserMessageIsQuestion ==
    (promptCalled /\ Len(promptSchema) = 0) =>
        /\ UserContent = <<promptQuestion>>
        /\ ~Contains(UserContent, <<"DATABASE SCHEMA:">>)

C2_Witness_EmptySnapshotRequest ==
    /\ promptCalled
    /\ Len(promptSchema) = 0
    /\ Len(promptMessages) = 2
    /\ promptMessages[2].role = "user"

----------------------------------------------------------------------------
(* Specification SpecReply: one reply of the completion API, taken through   *)
(* callApi, generateSql / fixSql and the classification of handleSubmit      *)

InitReply ==
    /\ TutIdle
    /\ PromptIdle
    /\ ChatIdle
    /\ SchemaIdle
    /\ AppIdle
    /\ ApiIdle
    /\ CvIdle
    /\ SerIdle
    /\ replyRaw \in RawReplies
    /\ replySql = <<>>
    /\ replyFixed = <<>>
    /\ replyMsg = NoMessage
    /\ replyDone = FALSE

HandleReply ==
    /\ ~replyDone
    /\ replySql' = generateSqlResult(replyRaw)
    /\ replyFixed' = fixSqlResult(replyRaw)
    /\ replyMsg' = assistantMessageFor(generateSqlResult(replyRaw), 1)
    /\ replyDone' = TRUE
    /\ UNCHANGED replyRaw
    /\ UNCHANGED replyOthers

NextReply == HandleReply

SpecReply == InitReply /\ [][NextReply]_vars

\* the reply as the claim reads it: trimmed, nothing else done to it
TrimmedReply == Trim(replyRaw)
\* the reply as handleSubmit receives it
StrippedReply == StripFences(Trim(replyRaw))

\* C7 (as claimed): a reply that, trimmed, starts with CLARIFY: or CHAT: gives a
\* message without sql whose text is the reply with the marker removed and
\* re-trimmed; every other reply is classified SQL and stored as the sql.
C7_ClassifiedFromTrimmedReply ==
    replyDone =>
        IF StartsWith(TrimmedReply, CLARIFY_PREFIX) \/ StartsWith(TrimmedReply, CHAT_PREFIX)
        THEN /\ replyMsg.sql = NoText
             /\ replyMsg.content = Trim(Tail(TrimmedReply))
        ELSE /\ replyMsg.sql # NoText
             /\ replyMsg.sql = replySql

\* C7 (amended): the same, read on the reply after trimming and after removal of
\* the fence markers; a reply that is empty then gets the fallback text, no sql.
C7_ClassifiedFromStrippedReply ==
    replyDone =>
        /\ replyMsg.role = "assistant"
        /\ IF StartsWith(StrippedReply, CLARIFY_PREFIX) \/ StartsWith(StrippedReply, CHAT_PREFIX)
           THEN /\ replyMsg.sql = NoText
                /\ replyMsg.content = Trim(Tail(StrippedReply))
           ELSE IF StrippedReply = <<>>
           THEN /\ replyMsg.sql = NoText
                /\ replyMsg.content = FALLBACK_TEXT
           ELSE /\ replyMsg.sql = StrippedReply
                /\ replyMsg.content = GENERATED_TEXT
                /\ ~replyMsg.sqlExecuted

\* a marker reply that needed the trim, the marker removal and the re-trim
C7_Witness_MarkerReplyTrimmed ==
    /\ replyDone
    /\ StartsWith(StrippedReply, CLARIFY_PREFIX)
    /\ TrimmedReply # replyRaw
    /\ replyMsg.content # Tail(StrippedReply)
    /\ replyMsg.content # NoText
    /\ replyMsg.sql = NoText

\* a reply wrapped in a fenced code block, with or without the sql tag
WrappedInFence(t) ==
    /\ Len(t) >= 3
    /\ t[1] = FENCE
    /\ t[Len(t)] = FENCE

LeadingBlankLine(p) ==
    \E k \in 1..Len(p) : p[k] = NL /\ \A i \in 1..(k - 1) : p[i] = SP

TrailingBlankLine(p) ==
    \E k \in 1..Len(p) : p[k] = NL /\ \A i \in (k + 1)..Len(p) : p[i] = SP

CleanSql(p) ==
    /\ ~Contains(p, <<FENCE>>)
    /\ ~LeadingBlankLine(p)
    /\ ~TrailingBlankLine(p)

\* C8 (as claimed): for a reply classified SQL that is wrapped in a fenced code
\* block, what generateSql and fixSql return has no fence marker and no leading
\* or trailing blank line.
C8_FencedSqlIsClean ==
    (replyDone /\ WrappedInFence(TrimmedReply) /\ replyMsg.sql # NoText) =>
        /\ CleanSql(replySql)
        /\ CleanSql(replyFixed)

----------------------------------------------------------------------------
(* Specification SpecChat: SimpleChat and the convert / run actions of the   *)
(* SQL editor                                                                *)

InitChat ==
    /\ TutIdle
    /\ PromptIdle
    /\ ReplyIdle
    /\ ChatIdle
    /\ SchemaIdle
    /\ AppIdle
    /\ ApiIdle
    /\ CvIdle
    /\ SerIdle

\* the parent re-renders SimpleChat with another schemaLoading
PropsChange ==
    /\ chatSchemaLoading' = ~chatSchemaLoading
    /\ UNCHANGED <<messages, isLoading, genPending, runs, execCalls, runClicks, now,
                   userActions, editorPending, editorInserted>>
    /\ UNCHANGED chatOthers

\* the tutorial hands SimpleChat a new non-empty demoMessages array: the effect
\* on [demoMessages] runs
DemoInject ==
    \E res \in ResultPool, t \in ClockAfter(now) :
        /\ userActions < MaxUserActions
        /\ userActions' = userActions + 1
        /\ now' = t
        /\ messages' = demoInjected(messages, buildDemoMessages(res, t))
        /\ UNCHANGED <<isLoading, chatSchemaLoading, genPending, runs, execCalls,
                       runClicks, editorPending, editorInserted>>
        /\ UNCHANGED chatOthers

\* handleSubmit up to the await of generateSql
Submit ==
    \E q \in ChatQuestions, t \in ClockAfter(now) :
        /\ ~isLoading
        /\ ~chatSchemaLoading
        /\ userActions < MaxUserActions
        /\ now' = t
        /\ messages' = Append(messages, TextMessage(t, "user", <<q>>))
        /\ isLoading' = TRUE
        /\ genPending' = [active |-> TRUE, question |-> q,
                          history |-> historyOf(messages),
                          request |-> generateSqlRequest(q, ChatSchema, historyOf(messages))]
        /\ userActions' = userActions + 1
        /\ UNCHANGED <<chatSchemaLoading, runs, execCalls, runClicks,
                       editorPending, editorInserted>>
        /\ UNCHANGED chatOthers

\* handleSubmit after generateSql has resolved
GenerateReply ==
    \E raw \in ChatReplies, t \in ClockAfter(now) :
        LET msg == assistantMessageFor(generateSqlResult(raw), t + 1)
        IN  /\ genPending.active
            /\ now' = t
            /\ messages' = Append(messages, msg)
            /\ execCalls' = execAfterGenerate(execCalls, msg)
            /\ isLoading' = FALSE
            /\ genPending' = NoGen
            /\ UNCHANGED <<chatSchemaLoading, runs, runClicks, userActions,
                           editorPending, editorInserted>>
            /\ UNCHANGED chatOthers

\* handleSubmit after generateSql has rejected
GenerateFail ==
    \E err \in ApiErrors, t \in ClockAfter(now) :
        /\ genPending.active
        /\ now' = t
        /\ messages' = Append(messages,
               [TextMessage(t + 1, "assistant", FAILED_TEXT) EXCEPT !.error = err])
        /\ isLoading' = FALSE
        /\ genPending' = NoGen
        /\ UNCHANGED <<chatSchemaLoading, runs, execCalls, runClicks, userActions,
                       editorPending, editorInserted>>
        /\ UNCHANGED chatOthers

\* the user clicks Run on message i: SqlBlock.handleRun, then handleRunSql up to
\* the await of executeQuery
RunClick ==
    \E i \in 1..Len(messages) :
        \E sql \in {messages[i].sql, EDITED_SQL} :
            LET id == messages[i].id
            IN  /\ runButtonShown(messages[i])
                /\ userActions < MaxUserActions
                /\ userActions' = userActions + 1
                /\ messages' = [k \in 1..Len(messages) |->
                       IF messages[k].id = id THEN markExecuting(messages[k])
                       ELSE messages[k]]
                /\ runs' = runs \cup
                       {[n |-> Len(runClicks) + 1, id |-> id, sql |-> sql,
                         phase |-> "exec", results |-> NoResult,
                         question |-> questionOf(messages, id)]}
                /\ execCalls' = Append(execCalls, [id |-> id, sql |-> sql])
                /\ runClicks' = Append(runClicks, [id |-> id, sql |-> sql])
                /\ UNCHANGED <<isLoading, chatSchemaLoading, genPending, now,
                               editorPending, editorInserted>>
                /\ UNCHANGED chatOthers

\* executeQuery resolves; handleRunSql goes on to the await of interpretResults
ExecOk ==
    \E r \in runs, res \in ResultPool :
        /\ r.phase = "exec"
        /\ runs' = (runs \ {r}) \cup {[r EXCEPT !.phase = "interpret", !.results = res]}
        /\ UNCHANGED <<messages, isLoading, chatSchemaLoading, genPending, execCalls,
                       runClicks, now, userActions, editorPending, editorInserted>>
        /\ UNCHANGED chatOthers

\* executeQuery rejects: the catch block of handleRunSql
ExecFail ==
    \E r \in runs, raw \in EngineErrors :
        /\ r.phase = "exec"
        /\ messages' = [k \in 1..Len(messages) |->
               IF messages[k].id = r.id THEN markFailed(messages[k], executeQueryError(raw))
               ELSE messages[k]]
        /\ runs' = runs \ {r}
        /\ UNCHANGED <<isLoading, chatSchemaLoading, genPending, execCalls, runClicks,
                       now, userActions, editorPending, editorInserted>>
        /\ UNCHANGED chatOthers

\* interpretResults resolves: the message gets the results
InterpretOk ==
    \E r \in runs, insight \in Insights :
        /\ r.phase = "interpret"
        /\ messages' = [k \in 1..Len(messages) |->
               IF messages[k].id = r.id
               THEN markSucceeded(messages[k], r.sql, r.results, insight)
               ELSE messages[k]]
        /\ runs' = runs \ {r}
        /\ UNCHANGED <<isLoading, chatSchemaLoading, genPending, execCalls, runClicks,
                       now, userActions, editorPending, editorInserted>>
        /\ UNCHANGED chatOthers

\* interpretResults rejects: the same catch block of handleRunSql
InterpretFail ==
    \E r \in runs, err \in ApiErrors :
        /\ r.phase = "interpret"
        /\ messages' = [k \in 1..Len(messages) |->
               IF messages[k].id = r.id THEN markFailed(messages[k], err)
               ELSE messages[k]]
        /\ runs' = runs \ {r}
        /\ UNCHANGED <<isLoading, chatSchemaLoading, genPending, execCalls, runClicks,
                       now, userActions, editorPending, editorInserted>>
        /\ UNCHANGED chatOthers

\* SqlEditor.handleConvertToSql up to the await of generateSql
EditorConvertStart ==
    /\ userActions < MaxUserActions
    /\ userActions' = userActions + 1
    /\ editorPending' = editorPending + 1
    /\ UNCHANGED <<messages, isLoading, chatSchemaLoading, genPending, runs, execCalls,
                   runClicks, now, editorInserted>>
    /\ UNCHANGED chatOthers

\* handleConvertToSql after generateSql has resolved: the SQL is inserted into
\* the editor text
EditorConvertDone ==
    \E raw \in EditorReplies :
        /\ editorPending > 0
        /\ editorPending' = editorPending - 1
        /\ editorInserted' = editorInserted \cup {generateSqlResult(raw)}
        /\ UNCHANGED <<messages, isLoading, chatSchemaLoading, genPending, runs,
                       execCalls, runClicks, now, userActions>>
        /\ UNCHANGED chatOthers

\* handleConvertToSql after generateSql has rejected
EditorConvertFail ==
    /\ editorPending > 0
    /\ editorPending' = editorPending - 1
    /\ UNCHANGED <<messages, isLoading, chatSchemaLoading, genPending, runs, execCalls,
                   runClicks, now, userActions, editorInserted>>
    /\ UNCHANGED chatOthers

\* the user presses Ctrl+Enter in the editor on an inserted statement:
\* SqlEditor.handleRunQuery
EditorRun ==
    \E sql \in editorInserted :
        /\ sql # NoText
        /\ userActions < MaxUserActions
        /\ userActions' = userActions + 1
        /\ execCalls' = Append(execCalls, [id |-> EDITOR_ID, sql |-> sql])
        /\ runClicks' = Append(runClicks, [id |-> EDITOR_ID, sql |-> sql])
        /\ UNCHANGED <<messages, isLoading, chatSchemaLoading, genPending, runs, now,
                       editorPending, editorInserted>>
        /\ UNCHANGED chatOthers

NextChat ==
    \/ PropsChange
    \/ DemoInject
    \/ Submit
    \/ GenerateReply
    \/ GenerateFail
    \/ RunClick
    \/ ExecOk
    \/ ExecFail
    \/ InterpretOk
    \/ InterpretFail
    \/ EditorConvertStart
    \/ EditorConvertDone
    \/ EditorConvertFail
    \/ EditorRun

SpecChat == InitChat /\ [][NextChat]_vars

\* the SQL-carrying assistant messages and the state of their query lifecycle,
\* read from the fields handleSubmit and handleRunSql write
carriesSql(m) == m.role = "assistant" /\ m.sql # NoText

MsgState(m) ==
    IF m.isGenerating THEN "EXECUTING"
    ELSE IF m.sqlExecuted = TRUE THEN "SUCCEEDED"
    ELSE IF m.error # NoText THEN "FAILED"
    ELSE "GENERATED"

\* the call of executeQuery made by this step is for message m
ExecCalledFor(m) ==
    /\ Len(execCalls') > Len(execCalls)
    /\ execCalls'[Len(execCalls')].id = m.id

\* C3: executeQuery is called only as the direct result of a user Run trigger:
\* the calls of executeQuery are, one by one and in order, the Run triggers of
\* the user, each with the message and the SQL of the trigger; generating SQL
\* in the chat or converting in the editor adds no call.
C3_ExecuteOnlyOnRunTrigger == execCalls = runClicks

\* SQL has been generated in the chat and converted in the editor, and the only
\* call of executeQuery is the one Run the user has triggered on the message
C3_Witness_GeneratedThenRun ==
    /\ editorInserted # {}
    /\ Len(execCalls) = 1
    /\ \E i \in 1..Len(messages) :
           /\ carriesSql(messages[i])
           /\ execCalls[1].id = messages[i].id
           /\ MsgState(messages[i]) = "EXECUTING"

\* C4: every SQL-carrying assistant message moves only along GENERATED ->
\* EXECUTING -> SUCCEEDED or FAILED: an execution is started for it, and
\* EXECUTING entered, only from GENERATED; SUCCEEDED and FAILED are entered only
\* from EXECUTING; a SUCCEEDED message never changes again.  (The chat has no
\* fix action, so a FAILED message is never returned to GENERATED.)
C4_LifecycleStepsOnly ==
    [][\A i \in 1..Len(messages) :
          carriesSql(messages[i]) =>
              LET a == MsgState(messages[i])
                  b == MsgState(messages'[i])
              IN  /\ ExecCalledFor(messages[i]) => a = "GENERATED"
                  /\ (a # b /\ b = "EXECUTING") => a = "GENERATED"
                  /\ (a # b /\ b \in {"SUCCEEDED", "FAILED"}) => a = "EXECUTING"
                  /\ a = "SUCCEEDED" => messages'[i] = messages[i]]_vars

\* C10: whenever executeQuery has returned a result for a run of a message, the
\* run ends with the message SUCCEEDED: sqlExecuted is true and the message
\* carries that result, the text with its row count, and the interpretation.
C10_ReturnedResultIsRecorded ==
    [][\A r \in runs :
          (r.phase = "interpret" /\ r \notin runs') =>
              \A i \in 1..Len(messages') :
                  (messages'[i].id = r.id /\ carriesSql(messages'[i])) =>
                      /\ MsgState(messages'[i]) = "SUCCEEDED"
                      /\ messages'[i].results = r.results
                      /\ messages'[i].content = FoundText(r.results.rowCount)
                      /\ messages'[i].insight \in Insights]_vars

----------------------------------------------------------------------------
(* Specification SpecSchema: useDuckDB, its connection and refreshSchema     *)

InitSchema ==
    /\ TutIdle
    /\ PromptIdle
    /\ ReplyIdle
    /\ ChatIdle
    /\ SchemaIdle
    /\ AppIdle
    /\ ApiIdle
    /\ CvIdle
    /\ SerIdle

\* refreshSchema up to its first await
StartRefresh(caller) ==
    /\ started < MaxRefreshes
    /\ Cardinality(refreshes) < MaxInFlight
    /\ schemaLoading' = TRUE
    /\ refreshes' = refreshes \cup {NewRefresh(started + 1, caller)}
    /\ started' = started + 1
    /\ resolved' = IF awaitsRefresh(caller) THEN resolved
                   ELSE resolvedWith(caller, started + 1)

\* refreshSchema has run its finally block: a caller that awaited it goes on
\* and returns
resolvedAfter(r, failed) ==
    IF awaitsRefresh(r.caller)
    THEN [resolvedWith(r.caller, r.n) EXCEPT !.outcome = refreshOutcome(failed)]
    ELSE resolved

\* initDuckDB has connected; the effect on conn calls refreshSchema
ConnReady ==
    /\ ~conn
    /\ conn' = TRUE
    /\ StartRefresh("effect")
    /\ UNCHANGED <<engine, schema, tables, builtBy, builtFrom>>
    /\ UNCHANGED schemaOthers

\* loadSampleData: the table is created, then refreshSchema is called
LoadSampleData ==
    /\ conn
    /\ engine' = createOrReplace(engine, SAMPLE_TABLE)
    /\ StartRefresh("loadSampleData")
    /\ UNCHANGED <<conn, schema, tables, builtBy, builtFrom>>
    /\ UNCHANGED schemaOthers

\* importCsv: the table is created from the file, then refreshSchema is called
ImportCsv ==
    /\ conn
    /\ engine' = createOrReplace(engine, CSV_TABLE)
    /\ StartRefresh("importCsv")
    /\ UNCHANGED <<conn, schema, tables, builtBy, builtFrom>>
    /\ UNCHANGED schemaOthers

\* the list query resolves: setTables, and with no table the loop is empty and
\* setSchema follows at once
ListOk ==
    \E r \in refreshes :
        LET names == listTables(engine)
        IN  /\ r.pc = "list"
            /\ tables' = names
            /\ IF names = <<>>
               THEN /\ schema' = {}
                    /\ builtBy' = r.n
                    /\ builtFrom' = names
                    /\ refreshes' = (refreshes \ {r}) \cup
                           {[r EXCEPT !.pc = "delay", !.tableNames = names]}
               ELSE /\ refreshes' = (refreshes \ {r}) \cup
                           {[r EXCEPT !.pc = "describe", !.tableNames = names,
                                      !.idx = 1]}
                    /\ UNCHANGED <<schema, builtBy, builtFrom>>
            /\ UNCHANGED <<conn, engine, schemaLoading, started, resolved>>
            /\ UNCHANGED schemaOthers

\* DESCRIBE of the current table resolves
DescribeOk ==
    \E r \in refreshes :
        /\ r.pc = "describe"
        /\ refreshes' = (refreshes \ {r}) \cup
               {[r EXCEPT !.pc = "sample", !.cols = engine[r.tableNames[r.idx]]]}
        /\ UNCHANGED <<conn, engine, schema, tables, schemaLoading, started, builtBy,
                       builtFrom, resolved>>
        /\ UNCHANGED schemaOthers

\* SELECT * ... LIMIT 5 of the current table resolves
SampleOk ==
    \E r \in refreshes :
        /\ r.pc = "sample"
        /\ refreshes' = (refreshes \ {r}) \cup
               {[r EXCEPT !.pc = "summarize", !.samples = engine[r.tableNames[r.idx]]]}
        /\ UNCHANGED <<conn, engine, schema, tables, schemaLoading, started, builtBy,
                       builtFrom, resolved>>
        /\ UNCHANGED schemaOthers

\* SUMMARIZE of the current table resolves: the table's entry is complete; after
\* the last table setSchema publishes schemaObj and the delay begins
SummarizeOk ==
    \E r \in refreshes :
        LET table == r.tableNames[r.idx]
            obj == r.schemaObj \cup
                       {schemaEntry(table, r.cols, r.samples, engine[table])}
        IN  /\ r.pc = "summarize"
            /\ IF r.idx < Len(r.tableNames)
               THEN /\ refreshes' = (refreshes \ {r}) \cup
                           {[r EXCEPT !.pc = "describe", !.idx = r.idx + 1,
                                      !.schemaObj = obj, !.cols = 0, !.samples = 0]}
                    /\ UNCHANGED <<schema, builtBy, builtFrom>>
               ELSE /\ schema' = obj
                    /\ builtBy' = r.n
                    /\ builtFrom' = r.tableNames
                    /\ refreshes' = (refreshes \ {r}) \cup
                           {[r EXCEPT !.pc = "delay", !.schemaObj = obj,
                                      !.cols = 0, !.samples = 0]}
            /\ UNCHANGED <<conn, engine, tables, schemaLoading, started, resolved>>
            /\ UNCHANGED schemaOthers

\* a query of the invocation rejects: catch, then finally
QueryFail ==
    \E r \in refreshes :
        /\ r.pc \in {"list", "describe", "sample", "summarize"}
        /\ schema' = schemaAfterFailure(schema, r.schemaObj)
        /\ schemaLoading' = FALSE
        /\ refreshes' = refreshes \ {r}
        /\ resolved' = resolvedAfter(r, TRUE)
        /\ UNCHANGED <<conn, engine, tables, started, builtBy, builtFrom>>
        /\ UNCHANGED schemaOthers

\* the 50 ms delay is over: finally
DelayDone ==
    \E r \in refreshes :
        /\ r.pc = "delay"
        /\ schemaLoading' = FALSE
        /\ refreshes' = refreshes \ {r}
        /\ resolved' = resolvedAfter(r, FALSE)
        /\ UNCHANGED <<conn, engine, schema, tables, started, builtBy, builtFrom>>
        /\ UNCHANGED schemaOthers

NextSchema ==
    \/ ConnReady
    \/ LoadSampleData
    \/ ImportCsv
    \/ ListOk
    \/ DescribeOk
    \/ SampleOk
    \/ SummarizeOk
    \/ QueryFail
    \/ DelayDone

SpecSchema == InitSchema /\ [][NextSchema]_vars

\* the step ends invocation r in its catch block: it leaves the outstanding
\* invocations before its setSchema
RefreshFails(r) ==
    /\ r.pc # "delay"
    /\ \A q \in refreshes' : q.n # r.n

\* C5: a refreshSchema in which a query fails leaves the published snapshot as
\* it was before (the empty one if nothing had been published), and in every
\* reachable state the published snapshot holds exactly the tables discovered
\* by the invocation that built it, never only some of them.
C5_FailedRefreshKeepsSnapshot ==
    /\ [](snapshotTables(schema) = {builtFrom[i] : i \in 1..Len(builtFrom)})
    /\ [][\A r \in refreshes : RefreshFails(r) => schema' = schema]_vars

\* the first refresh published the empty snapshot; after a table was created
\* the second refresh discovered it and then failed in a per-table query: the
\* empty snapshot is still the published one
C5_Witness_FailedAfterDiscovery ==
    /\ started = 2
    /\ refreshes = {}
    /\ ~schemaLoading
    /\ builtBy = 1
    /\ schema = {}
    /\ tables # <<>>

\* C6: once a refresh has been started, schemaLoading = false implies that the
\* published snapshot was built by the most recently started refresh.
C6_LoadedMeansCurrent ==
    (started > 0 /\ ~schemaLoading) => builtBy = started

----------------------------------------------------------------------------
(* Specification SpecDuckQuery: the DuckQuery component of App.tsx, its SQL  *)
(* textarea, error banner and the generate / fix / execute handlers; the     *)
(* connection is established and an API key is set                           *)

InitDuckQuery ==
    /\ TutIdle
    /\ PromptIdle
    /\ ReplyIdle
    /\ ChatIdle
    /\ SchemaIdle
    /\ AppIdle
    /\ ApiIdle
    /\ CvIdle
    /\ SerIdle

\* onChange of the question input
TypeQuestion ==
    \E q \in ChatQuestions :
        /\ nlQuery # <<q>>
        /\ nlQuery' = <<q>>
        /\ UNCHANGED <<sqlQuery, error, queryLoading, results, appPending, appActions,
                       fixRequests, lastFailure>>
        /\ UNCHANGED appOthers

\* onChange of the SQL textarea
EditSql ==
    \E s \in AppSqlPool :
        /\ sqlQuery # s
        /\ sqlQuery' = s
        /\ UNCHANGED <<nlQuery, error, queryLoading, results, appPending, appActions,
                       fixRequests, lastFailure>>
        /\ UNCHANGED appOthers

\* the close button of the error banner
DismissError ==
    /\ error # NoText
    /\ error' = NoText
    /\ UNCHANGED <<nlQuery, sqlQuery, queryLoading, results, appPending, appActions,
                   fixRequests, lastFailure>>
    /\ UNCHANGED appOthers

\* generateSQL up to the await of fetch (Enter in the question input)
GenerateSQLStart ==
    /\ Trim(nlQuery) # <<>>
    /\ appActions < MaxAppActions
    /\ appActions' = appActions + 1
    /\ queryLoading' = TRUE
    /\ appPending' = appPending \cup
           {[n |-> appActions + 1, kind |-> "generate", sql |-> NoText]}
    /\ UNCHANGED <<nlQuery, sqlQuery, error, results, fixRequests, lastFailure>>
    /\ UNCHANGED appOthers

GenerateSQLOk ==
    \E op \in appPending, raw \in AppReplies :
        /\ op.kind = "generate"
        /\ sqlQuery' = legacyCleanSql(raw)
        /\ error' = NoText
        /\ queryLoading' = FALSE
        /\ appPending' = appPending \ {op}
        /\ UNCHANGED <<nlQuery, results, appActions, fixRequests, lastFailure>>
        /\ UNCHANGED appOthers

GenerateSQLFail ==
    \E op \in appPending, err \in AppApiErrors :
        /\ op.kind = "generate"
        /\ error' = <<GENERATE_FAILED_PREFIX>> \o err
        /\ queryLoading' = FALSE
        /\ appPending' = appPending \ {op}
        /\ UNCHANGED <<nlQuery, sqlQuery, results, appActions, fixRequests, lastFailure>>
        /\ UNCHANGED appOthers

\* fixSQL up to the await of fetch (the Fix button of the error banner, which
\* is disabled while queryLoading)
FixSQLStart ==
    /\ error # NoText
    /\ ~queryLoading
    /\ Trim(sqlQuery) # <<>>
    /\ appActions < MaxAppActions
    /\ appActions' = appActions + 1
    /\ queryLoading' = TRUE
    /\ fixRequests' = Append(fixRequests, fixRequestOf(sqlQuery, error, lastFailure))
    /\ appPending' = appPending \cup
           {[n |-> appActions + 1, kind |-> "fix", sql |-> sqlQuery]}
    /\ UNCHANGED <<nlQuery, sqlQuery, error, results, lastFailure>>
    /\ UNCHANGED appOthers

FixSQLOk ==
    \E op \in appPending, raw \in AppReplies :
        /\ op.kind = "fix"
        /\ sqlQuery' = legacyCleanSql(raw)
        /\ error' = NoText
        /\ queryLoading' = FALSE
        /\ appPending' = appPending \ {op}
        /\ UNCHANGED <<nlQuery, results, appActions, fixRequests, lastFailure>>
        /\ UNCHANGED appOthers

FixSQLFail ==
    \E op \in appPending, err \in AppApiErrors :
        /\ op.kind = "fix"
        /\ error' = <<FIX_FAILED_PREFIX>> \o err
        /\ queryLoading' = FALSE
        /\ appPending' = appPending \ {op}
        /\ UNCHANGED <<nlQuery, sqlQuery, results, appActions, fixRequests, lastFailure>>
        /\ UNCHANGED appOthers

\* executeSQL up to the await of conn.query (the Execute button, or Cmd+Enter
\* in the textarea)
ExecuteSQLStart ==
    /\ Trim(sqlQuery) # <<>>
    /\ appActions < MaxAppActions
    /\ appActions' = appActions + 1
    /\ queryLoading' = TRUE
    /\ error' = NoText
    /\ appPending' = appPending \cup
           {[n |-> appActions + 1, kind |-> "execute", sql |-> sqlQuery]}
    /\ UNCHANGED <<nlQuery, sqlQuery, results, fixRequests, lastFailure>>
    /\ UNCHANGED appOthers

\* conn.query resolves: the rows are shown, then refreshSchema is awaited
ExecuteSQLOk ==
    \E op \in appPending :
        /\ op.kind = "execute"
        /\ results' = AppRows
        /\ appPending' = (appPending \ {op}) \cup {[op EXCEPT !.kind = "refresh"]}
        /\ UNCHANGED <<nlQuery, sqlQuery, error, queryLoading, appActions, fixRequests,
                       lastFailure>>
        /\ UNCHANGED appOthers

\* the refreshSchema of executeSQL has returned (it catches its own errors)
ExecuteSQLRefreshed ==
    \E op \in appPending :
        /\ op.kind = "refresh"
        /\ queryLoading' = FALSE
        /\ appPending' = appPending \ {op}
        /\ UNCHANGED <<nlQuery, sqlQuery, error, results, appActions, fixRequests,
                       lastFailure>>
        /\ UNCHANGED appOthers

\* conn.query rejects: the engine's message becomes the error
ExecuteSQLFail ==
    \E op \in appPending, raw \in EngineErrors :
        /\ op.kind = "execute"
        /\ error' = raw
        /\ results' = NoRows
        /\ queryLoading' = FALSE
        /\ lastFailure' = [sql |-> op.sql, error |-> raw]
        /\ appPending' = appPending \ {op}
        /\ UNCHANGED <<nlQuery, sqlQuery, appActions, fixRequests>>
        /\ UNCHANGED appOthers

NextDuckQuery ==
    \/ TypeQuestion
    \/ EditSql
    \/ DismissError
    \/ GenerateSQLStart
    \/ GenerateSQLOk
    \/ GenerateSQLFail
    \/ FixSQLStart
    \/ FixSQLOk
    \/ FixSQLFail
    \/ ExecuteSQLStart
    \/ ExecuteSQLOk
    \/ ExecuteSQLRefreshed
    \/ ExecuteSQLFail

SpecDuckQuery == InitDuckQuery /\ [][NextDuckQuery]_vars

\* the step completes a fix request with a reply
FixReturns(op) ==
    /\ op.kind = "fix"
    /\ op \notin appPending'
    /\ error' = NoText

\* C9: after an execution has failed, every fix request carries exactly the raw
\* engine error text of that failure and exactly the SQL that failed, and when
\* the fix returns, the returned SQL replaces the SQL of the turn and the error
\* is cleared, so the turn is back at a generated statement.
C9_FixSendsFailedSqlAndError ==
    /\ [](\A i \in 1..Len(fixRequests) :
             fixRequests[i].failedSql # NoText =>
                 /\ fixRequests[i].sql = fixRequests[i].failedSql
                 /\ fixRequests[i].error = fixRequests[i].failedError)
    /\ [][\A op \in appPending :
             FixReturns(op) => \E raw \in AppReplies : sqlQuery' = legacyCleanSql(raw)]_vars

\* C11: a message that is FAILED after a run carries, as its error, the raw
\* error text the engine gave for the failed execution: not a friendly
\* rewording and not the error of another operation.  (Checked in SpecChat.)
C11_FailedCarriesEngineError ==
    \A i \in 1..Len(messages) :
        (carriesSql(messages[i]) /\ MsgState(messages[i]) = "FAILED") =>
            messages[i].error \in EngineErrors

----------------------------------------------------------------------------
(* Specification SpecSerialize: buildSchemaDescription applied to a snapshot, *)
(* with and without details                                                   *)

InitSerialize ==
    /\ TutIdle
    /\ PromptIdle
    /\ ReplyIdle
    /\ ChatIdle
    /\ SchemaIdle
    /\ AppIdle
    /\ ApiIdle
    /\ CvIdle
    /\ serSchema \in Snapshots
    /\ serDetailed = <<>>
    /\ serCompact = <<>>
    /\ serDone = FALSE

Serialize ==
    /\ ~serDone
    /\ serDetailed' = buildSchemaDescription(serSchema, TRUE)
    /\ serCompact' = buildSchemaDescription(serSchema, FALSE)
    /\ serDone' = TRUE
    /\ UNCHANGED serSchema
    /\ UNCHANGED serOthers

NextSerialize == Serialize

SpecSerialize == InitSerialize /\ [][NextSerialize]_vars

\* C12: serializing an empty snapshot yields exactly the empty string, with
\* includeDetails true and with includeDetails false.
C12_EmptySnapshotSerializesToEmpty ==
    (serDone /\ serSchema = <<>>) => (serDetailed = <<>> /\ serCompact = <<>>)

\* the empty snapshot has been serialized
C12_Witness_EmptySerialized == serDone /\ serSchema = <<>>

C14_RenderedInDiscoveryOrder ==
    serDone =>
        LET one(t) == TableText(t, TRUE)
        IN  serDetailed = JoinSeq(MapSeq(EntriesInInsertionOrder(serSchema), one), <<"\n\n">>)

----------------------------------------------------------------------------
(* Specification SpecConvert: the values of the engine as refreshSchema and   *)
(* executeQuery publish them                                                  *)

InitConvert ==
    /\ TutIdle
    /\ PromptIdle
    /\ ReplyIdle
    /\ ChatIdle
    /\ SchemaIdle
    /\ AppIdle
    /\ ApiIdle
    /\ SerIdle
    /\ cvCell \in EngineValues
    /\ cvMin \in EngineValues
    /\ cvCount \in EngineCounts
    /\ cvSample = NullValue
    /\ cvStat = NoStat
    /\ cvRow = NullValue
    /\ cvDone = {}

\* refreshSchema: obj[f.name] = convertBigIntToNumber(r[f.name])
ConvertSample ==
    /\ "sample" \notin cvDone
    /\ cvSample' = convertBigIntToNumber(cvCell)
    /\ cvDone' = cvDone \cup {"sample"}
    /\ UNCHANGED <<cvCell, cvMin, cvCount, cvStat, cvRow>>
    /\ UNCHANGED cvOthers

\* refreshSchema: the entry made of a SUMMARIZE row
ConvertStats ==
    /\ "stats" \notin cvDone
    /\ cvStat' = statsEntry(cvMin, cvCount)
    /\ cvDone' = cvDone \cup {"stats"}
    /\ UNCHANGED <<cvCell, cvMin, cvCount, cvSample, cvRow>>
    /\ UNCHANGED cvOthers

\* executeQuery: obj[c] = convertBigIntToNumber(r[c])
ConvertRow ==
    /\ "row" \notin cvDone
    /\ cvRow' = convertBigIntToNumber(cvCell)
    /\ cvDone' = cvDone \cup {"row"}
    /\ UNCHANGED <<cvCell, cvMin, cvCount, cvSample, cvStat>>
    /\ UNCHANGED cvOthers

NextConvert ==
    \/ ConvertSample
    \/ ConvertStats
    \/ ConvertRow

SpecConvert == InitConvert /\ [][NextConvert]_vars

\* C15: an integer of the engine that lies beyond the safe-integer range is
\* published, in sample rows, statistics and query-result rows, as its decimal
\* string and never as a number, so no published number is beyond the safe
\* range.
C15_OversizedIntegersArePublishedAsStrings ==
    /\ ("sample" \in cvDone /\ Oversized(cvCell)) => IsDecimalStringOf(cvSample, cvCell)
    /\ ("row" \in cvDone /\ Oversized(cvCell)) => IsDecimalStringOf(cvRow, cvCell)
    /\ ("stats" \in cvDone /\ Oversized(cvMin)) =>
           (IsDecimalStringOf(cvStat.min, cvMin) /\ IsDecimalStringOf(cvStat.max, cvMin))
    /\ ("stats" \in cvDone /\ Oversized(cvCount)) =>
           (IsDecimalStringOf(cvStat.count, cvCount)
            /\ IsDecimalStringOf(cvStat.approx_unique, cvCount))
    /\ \A p \in {cvSample, cvRow, cvStat.min, cvStat.max, cvStat.count,
                 cvStat.approx_unique} :
           p.kind = "number" => IsSafeInteger(p)

\* 2^53 + 1 was returned in a cell and as a minimum, and all three conversions
\* have been made
C15_Witness_OversizedConverted ==
    /\ cvDone = {"sample", "stats", "row"}
    /\ cvCell = BigInt(FALSE, SafeHi + 1, 1)
    /\ cvMin = BigInt(TRUE, SafeHi + 1, 1)

----------------------------------------------------------------------------
(* Specification SpecApi: an operation of useAI whose completion request is   *)
(* answered with a non-success HTTP status                                    *)

InitApi ==
    /\ TutIdle
    /\ PromptIdle
    /\ ReplyIdle
    /\ ChatIdle
    /\ SchemaIdle
    /\ AppIdle
    /\ SerIdle
    /\ CvIdle
    /\ apiStatus \in FailureStatuses
    /\ apiOp \in ApiOperations
    /\ apiParsed = NoAppError
    /\ apiThrown = NoAppError
    /\ apiDone = FALSE

\* callApi: !response.ok, parseApiError, throw; the operation rejects with it
CallApiFails ==
    /\ ~apiDone
    /\ apiParsed' = parseApiError(apiStatus)
    /\ apiThrown' = thrownByCallApi(parseApiError(apiStatus))
    /\ apiDone' = TRUE
    /\ UNCHANGED <<apiStatus, apiOp>>
    /\ UNCHANGED apiOthers

NextApi == CallApiFails

SpecApi == InitApi /\ [][NextApi]_vars

\* C16: parseApiError maps 401 and 403 to AUTH, 429 to RATE_LIMIT, 400 to
\* BAD_REQUEST with recoverable = false, and every other non-success status to
\* API_ERROR with recoverable = true.
C16_StatusMapsToTypedError ==
    apiDone =>
        /\ apiStatus \in {401, 403} => apiParsed.code = "AUTH"
        /\ apiStatus = 429 => apiParsed.code = "RATE_LIMIT"
        /\ apiStatus = 400 =>
               (apiParsed.code = "BAD_REQUEST" /\ apiParsed.recoverable = FALSE)
        /\ apiStatus \notin {400, 401, 403, 429} =>
               (apiParsed.code = "API_ERROR" /\ apiParsed.recoverable = TRUE)

\* a status that HTTP_ERROR_MAP does not list has been parsed
C16_Witness_UnlistedStatusParsed == apiDone /\ apiStatus = 418

\* C17: when the completion API answers with a non-success status, the
\* operation rejects towards its caller with an error that carries the code
\* mapped from the status and its recoverable flag.
C17_RejectsWithStructuredError ==
    apiDone =>
        /\ apiThrown.code = parseApiError(apiStatus).code
        /\ apiThrown.recoverable = parseApiError(apiStatus).recoverable

\* C18: the completion request built for generateSql holds the system
\* instruction, then the prior turns of the conversation (the last 10 messages
\* at most, in log order, each with its role, SQL-carrying assistant turns
\* rendered as Generated SQL / Result / Error), then the new user message.
\* (Checked in SpecChat.)
C18_RequestCarriesHistory ==
    genPending.active =>
        /\ Len(genPending.request) = Len(genPending.history) + 2
        /\ genPending.request[1].role = "system"
        /\ \A i \in 1..Len(genPending.history) :
               genPending.request[i + 1] = genPending.history[i]
        /\ genPending.request[Len(genPending.request)] =
               [role |-> "user", content |-> <<genPending.question>>]

\* the step in which invocation r calls setSchema
Publishes(r) ==
    /\ r.pc \in {"list", "summarize"}
    /\ \E q \in refreshes' : q.n = r.n /\ q.pc = "delay"

\* every answer invocation r has got, and the one it gets in this step, is the
\* answer of the engine as it is now: the database did not change under it
AnsweredFromCurrentEngine(r) ==
    IF r.pc = "list" THEN TRUE
    ELSE /\ r.tableNames = listTables(engine)
         /\ \A x \in r.schemaObj :
                x.columns = engine[x.name] /\ x.samples = engine[x.name]
                    /\ x.stats = engine[x.name]
         /\ r.cols = engine[r.tableNames[r.idx]]
         /\ r.samples = engine[r.tableNames[r.idx]]

\* C19: a refreshSchema run whose queries were all answered from one state of
\* the database publishes a snapshot whose serialization is the text that
\* describes that state, so two runs against an unchanged database publish
\* snapshots with identical serializations.  (Checked in SpecSchema.)
C19_RefreshOfUnchangedDatabaseSameText ==
    [][\A r \in refreshes :
          (Publishes(r) /\ AnsweredFromCurrentEngine(r)) =>
              serializeSnapshot(builtFrom', schema') =
                  serializeSnapshot(listTables(engine), engineSnapshot(engine))]_vars

\* two refreshSchema runs that read the same loaded database have both called
\* setSchema, with the same snapshot
C19_Witness_TwoRunsSameDatabase ==
    \E r1 \in refreshes, r2 \in refreshes :
        /\ r1.n # r2.n
        /\ r1.pc = "delay" /\ r2.pc = "delay"
        /\ r1.schemaObj = schema /\ r2.schemaObj = schema
        /\ schema = engineSnapshot(engine)
        /\ schema # {}

\* the step starts a refreshSchema invocation with an empty schemaObj
RebuildStarted ==
    /\ started' = started + 1
    /\ \E r \in refreshes' \ refreshes :
           r.n = started' /\ r.pc = "list" /\ r.schemaObj = {}
    /\ schemaLoading'

\* the step in which importCsv or loadSampleData returns to its caller
OperationResolves ==
    /\ resolved' # resolved
    /\ resolved'.op \in {"importCsv", "loadSampleData"}

\* C20: the connection becoming ready and every table created by importCsv or
\* loadSampleData starts a refreshSchema invocation that builds the snapshot
\* from nothing; importCsv and loadSampleData return to their caller only in
\* the step that ends their own invocation, with schemaLoading false.
\* (Checked in SpecSchema.)
C20_RebuildStartedAndAwaited ==
    /\ [][(conn' # conn \/ engine' # engine) => RebuildStarted]_vars
    /\ [][OperationResolves =>
             /\ \E r \in refreshes : r.n = resolved'.n /\ r.caller = resolved'.op
             /\ \A r \in refreshes' : r.n # resolved'.n
             /\ ~schemaLoading']_vars

\* importCsv has returned to its caller after its own refresh published the
\* snapshot
C20_Witness_ImportResolved ==
    /\ resolved.op = "importCsv"
    /\ builtBy = resolved.n
    /\ ~schemaLoading
    /\ \E e \in schema : e.name = CSV_TABLE

----------------------------------------------------------------------------
(* Specification SpecTutorial: the useTutorial hook as the Tutorial          *)
(* component and the "How to use" button drive it                            *)

\* TUTORIAL_STEPS.length
TOTAL_STEPS == 9

\* what localStorage.getItem can return for the key
StoredValues == {"absent", "true", "false"}

\* the variant that takes any stored value for a completion
isTutorialCompletedIfPresent(stored) == stored # "absent"

\* localStorage.getItem(STORAGE_KEYS.TUTORIAL_COMPLETED) === 'true'
isTutorialCompleted(stored) == stored = "true"

\* the state the hook's functions write
TutorialState == [stored |-> tutStored, active |-> isActive, idx |-> currentStepIndex]

\* the variant that leaves the step index where it is
completeTutorialKeepsStep(st) == [st EXCEPT !.stored = "true", !.active = FALSE]

\* markTutorialCompleted(); setIsActive(false); setCurrentStepIndex(0)
completeTutorial(st) == [stored |-> "true", active |-> FALSE, idx |-> 0]

\* skipTutorial
skipTutorial(st) == completeTutorial(st)

\* nextStep: the test reads the currentStepIndex of the render that made the
\* callback, the update is setCurrentStepIndex(prev => prev + 1)
nextStep(st, captured) ==
    IF captured >= TOTAL_STEPS - 1 THEN completeTutorial(st)
    ELSE [st EXCEPT !.idx = @ + 1]

\* prevStep: setCurrentStepIndex(prev => Math.max(0, prev - 1))
prevStep(st) == [st EXCEPT !.idx = IF @ - 1 > 0 THEN @ - 1 ELSE 0]

\* startTutorial: setCurrentStepIndex(0); setIsActive(true)
startTutorial(st) == [st EXCEPT !.idx = 0, !.active = TRUE]

InitTutorial ==
    /\ PromptIdle
    /\ ReplyIdle
    /\ ChatIdle
    /\ SchemaIdle
    /\ AppIdle
    /\ SerIdle
    /\ CvIdle
    /\ ApiIdle
    /\ tutStored \in StoredValues
    /\ tutMounted = FALSE
    /\ isActive = FALSE
    /\ currentStepIndex = 0
    /\ renderedIndex = 0
    /\ renderedActive = FALSE
    /\ tutCalls = 0
    /\ tutLastOp = "none"

\* a function of the hook has run and left the state st
Called(op, st) ==
    /\ tutCalls < MaxCallsPerRender
    /\ tutCalls' = tutCalls + 1
    /\ tutLastOp' = op
    /\ tutStored' = st.stored
    /\ isActive' = st.active
    /\ currentStepIndex' = st.idx
    /\ UNCHANGED <<tutMounted, renderedIndex, renderedActive>>
    /\ UNCHANGED tutOthers

\* the auto-start effect after the first render
Mount ==
    /\ ~tutMounted
    /\ tutMounted' = TRUE
    /\ isActive' = IF ~isTutorialCompleted(tutStored) THEN TRUE ELSE isActive
    /\ tutLastOp' = "mount"
    /\ tutCalls' = tutCalls + 1
    /\ UNCHANGED <<tutStored, currentStepIndex, renderedIndex, renderedActive>>
    /\ UNCHANGED tutOthers

\* the component renders again: the callbacks capture the state as it is
Render ==
    /\ tutCalls > 0
    /\ renderedIndex' = currentStepIndex
    /\ renderedActive' = isActive
    /\ tutCalls' = 0
    /\ UNCHANGED <<tutStored, tutMounted, isActive, currentStepIndex, tutLastOp>>
    /\ UNCHANGED tutOthers

\* Next in the tooltip, or the effect of Tutorial that skips a step whose
\* target is missing
NextStep ==
    /\ tutMounted /\ renderedActive
    /\ Called("nextStep", nextStep(TutorialState, renderedIndex))

\* Back in the tooltip
PrevStep ==
    /\ tutMounted /\ renderedActive
    /\ Called("prevStep", prevStep(TutorialState))

\* Skip in the tooltip, the backdrop or the Escape key
SkipTutorial ==
    /\ tutMounted /\ renderedActive
    /\ Called("skipTutorial", skipTutorial(TutorialState))

\* the "How to use" button
StartTutorial ==
    /\ tutMounted
    /\ Called("startTutorial", startTutorial(TutorialState))

NextTutorial ==
    \/ Mount
    \/ Render
    \/ NextStep
    \/ PrevStep
    \/ SkipTutorial
    \/ StartTutorial

SpecTutorial == InitTutorial /\ [][NextTutorial]_vars

\* the step is a call of the hook's function op
CallOf(op) == tutCalls' = tutCalls + 1 /\ tutLastOp' = op

\* C22: the auto-start effect leaves the tutorial active exactly when the
\* stored flag is not 'true'; an inactive tutorial becomes active only by that
\* effect or by startTutorial, and startTutorial leaves it active at step 0.
\* (Checked in SpecTutorial.)
C22_AutoStartUnlessCompleted ==
    /\ [][CallOf("mount") => (isActive' <=> tutStored # "true")]_vars
    /\ [][(~isActive /\ isActive') =>
              \/ CallOf("mount") /\ tutStored # "true"
              \/ CallOf("startTutorial")]_vars
    /\ [][CallOf("startTutorial") => (isActive' /\ currentStepIndex' = 0)]_vars

\* a completed tutorial was started again with the "How to use" button
C22_Witness_RestartedAfterCompletion ==
    /\ tutStored = "true"
    /\ tutLastOp = "startTutorial"
    /\ isActive
    /\ currentStepIndex = 0

\* C23: skipTutorial, and nextStep called from the render of the last step,
\* leave the tutorial inactive, the flag 'true' and the index 0; nextStep called
\* from the render of an earlier step adds exactly one to the index; prevStep
\* on an index above 0 takes one off; a flag that is 'true' stays 'true'.
\* (Checked in SpecTutorial.)
C23_NavigationAndCompletion ==
    /\ [][(CallOf("skipTutorial")
             \/ (CallOf("nextStep") /\ renderedIndex >= TOTAL_STEPS - 1)) =>
              (~isActive' /\ tutStored' = "true" /\ currentStepIndex' = 0)]_vars
    /\ [][(CallOf("nextStep") /\ renderedIndex < TOTAL_STEPS - 1) =>
              (currentStepIndex' = currentStepIndex + 1
                  /\ isActive' = isActive /\ tutStored' = tutStored)]_vars
    /\ [][(CallOf("prevStep") /\ currentStepIndex > 0) =>
              currentStepIndex' = currentStepIndex - 1]_vars
    /\ [][tutStored = "true" => tutStored' = "true"]_vars

\* Next on the last step has completed a tutorial that was not completed before
C23_Witness_CompletedByNext ==
    /\ tutLastOp = "nextStep"
    /\ renderedIndex = TOTAL_STEPS - 1
    /\ ~isActive
    /\ tutStored = "true"
    /\ currentStepIndex = 0

\* C26: currentStepIndex is always the index of a step of TUTORIAL_STEPS.
\* (Checked in SpecTutorial.)
C26_StepIndexInRange ==
    currentStepIndex \in 0..(TOTAL_STEPS - 1)

----------------------------------------------------------------------------
(* SpecSchema with the engine answering every query and the timer firing    *)

\* a step of an outstanding invocation: one of its queries settles or its
\* delay is over
RefreshStep ==
    ListOk \/ DescribeOk \/ SampleOk \/ SummarizeOk \/ QueryFail \/ DelayDone

\* the engine settles the queries it was sent and the 50 ms timer fires
SpecSchemaFair == SpecSchema /\ WF_vars(RefreshStep)

\* the step ends invocation r
RefreshEnds(r) == \A q \in refreshes' : q.n # r.n

\* C24: a refreshSchema invocation in which a query fails ends in that step
\* with schemaLoading false, starts no other invocation, and lets a caller that
\* awaited it go on with a fulfilled promise; every invocation that was started
\* sets schemaLoading false in the step that ends it, and after any moment
\* there is a later one at which every invocation started so far has ended
\* and schemaLoading is false.
\* (Checked in SpecSchemaFair.)
C24_FailureSwallowedAndLoadingCleared ==
    /\ [][\A r \in refreshes :
              RefreshFails(r) =>
                  /\ ~schemaLoading'
                  /\ started' = started
                  /\ refreshes' = refreshes \ {r}
                  /\ awaitsRefresh(r.caller) =>
                         resolved' = [op |-> r.caller, n |-> r.n,
                                      outcome |-> "fulfilled"]]_vars
    /\ [][\A r \in refreshes : RefreshEnds(r) => ~schemaLoading']_vars
    /\ []<>(refreshes = {} /\ ~schemaLoading)

\* the refresh awaited by importCsv failed and importCsv returned to its caller
C24_Witness_ImportReturnedAfterFailure ==
    /\ resolved.op = "importCsv"
    /\ resolved.outcome = "fulfilled"
    /\ builtBy < resolved.n
    /\ refreshes = {}
    /\ ~schemaLoading

\* C25: at most one refreshSchema invocation is outstanding at any time.
\* (Checked in SpecSchema.)
C25_SingleRefreshInFlight ==
    Cardinality(refreshes) <= 1

\* C30: whenever schemaLoading is false, the published table list names
\* exactly the tables of the published snapshot.  (Checked in SpecSchema.)
C30_TablesMatchSnapshotWhenLoaded ==
    ~schemaLoading => {tables[i] : i \in 1..Len(tables)} = snapshotTables(schema)

\* C27: a message whose run has succeeded (sqlExecuted true, results
\* recorded, no run shown as executing) carries no error text.
\* (Checked in SpecChat.)
C27_SucceededCarriesNoError ==
    \A i \in 1..Len(messages) :
        (MsgState(messages[i]) = "SUCCEEDED" /\ messages[i].results # NoResult)
            => messages[i].error = NoText

\* C28: the messages of the log have pairwise distinct ids.
\* (Checked in SpecChat.)
C28_MessageIdsDistinct ==
    \A i \in 1..Len(messages), j \in 1..Len(messages) :
        i # j => messages[i].id # messages[j].id

\* C29: no two outstanding handleRunSql invocations are for the same message.
\* (Checked in SpecChat.)
C29_OneExecutionPerMessage ==
    \A r1 \in runs, r2 \in runs : r1.id = r2.id => r1 = r2

====
